---- MODULE Spec2Model ----
(***************************************************************************)
(* Storage (src/storage.py): a component resource that declares a storage  *)
(* account, a blob container in it and a derived primary key, and          *)
(* registers three outputs.  The constructor only declares the resources   *)
(* and the deferred values; the deployment engine issues each request once *)
(* the deferred inputs of that request have resolved.  The model has one   *)
(* action for the constructor and one action for every step the engine or  *)
(* the provider takes on what the constructor declared.                    *)
(***************************************************************************)
EXTENDS Naturals, Sequences, FiniteSets, TLC

VARIABLES constructed, rgArg, rgSt, acct, cont, key, outputs, registry,
          acctCreates, contCreates, keyQueries, deployErr, order

vars == <<constructed, rgArg, rgSt, acct, cont, key, outputs, registry,
          acctCreates, contCreates, keyQueries, deployErr, order>>

(***************************************************************************)
(* Inputs and provider answers                                             *)
(***************************************************************************)

\* Bound: the longest key sequence ListAccountKeys answers with.
MaxKeys == 2

\* The instance names (argument `name`) of the bundles of one deployment.
Instances == {"bundle1", "bundle2"}

\* args.get("resource_group_name") of a dictionary without the key.
None == "None"

\* The resource groups the provider knows.
ValidGroups == {"rg-test"}

\* The values args.get("resource_group_name") can give: a reference to an
\* existing group, a reference to no group, no reference.
RgRefs == {"rg-test", "rg?bad", None}

\* The physical account names the provider can answer with.
AccountNames == {"sa123", "sa9f8e"}

\* The key values the provider can answer with.
KeyValues == {"KEY1", "KEY2"}

\* One element of the answer of list_storage_account_keys.
KeyEntry(n, v) == [key_name |-> "key" \o ToString(n), value |-> v]

\* The answers of list_storage_account_keys: ordered, possibly empty.
KeyLists ==
  UNION { { [n \in 1..len |-> KeyEntry(n, f[n])] : f \in [1..len -> KeyValues] }
          : len \in 0..MaxKeys }

\* No value (an unresolved or failed deferred value).
NoValue == "<none>"

\* The component has not registered outputs.
NoOutputs == [registered |-> FALSE]

(***************************************************************************)
(* The names the constructor gives                                         *)
(***************************************************************************)

\* The type token of the component.
ComponentType == "x:index:Storage"

\* The logical name of the account.
AccountLogicalName(name) == "sa"

ContainerNameNoSuffix(name) == name

\* The logical name of the container.
ContainerName(name) == name \o "-blobcontainer"

\* The physical names the provider can give a container of that logical name.
ContainerNamesFor(logical) == {logical, logical \o "7f3a"}

\* The engine's identity of a child resource: the type of the parent, the
\* type of the child and the child's logical name.
Urn(parentType, type, logical) == <<parentType, type, logical>>

(***************************************************************************)
(* The deferred values of one instance                                     *)
(***************************************************************************)

\* Before the constructor has declared it, a resource is absent.
Absent ==
  [st |-> "absent", logical |-> NoValue, account |-> NoValue, rg |-> NoValue,
   name |-> NoValue, keys |-> <<>>, value |-> NoValue, err |-> NoValue]

AccountDeclared == [st |-> "declared", name |-> NoValue, err |-> NoValue]

ContainerDeclared(name) ==
  [st |-> "declared", logical |-> ContainerName(name), account |-> NoValue,
   rg |-> NoValue, name |-> NoValue, err |-> NoValue]

KeyDeclared ==
  [st |-> "declared", account |-> NoValue, rg |-> NoValue, keys |-> <<>>,
   value |-> NoValue, err |-> NoValue]

AccountReady(i) == acct[i].st = "ready"
ContainerReady(i) == cont[i].st = "ready"
KeyResolved(i) == key[i].st = "resolved"

\* The first failure of an instance is the failure of the deployment.
FirstError(i, e) == IF deployErr[i] = NoValue THEN e ELSE deployErr[i]

\* The fork that completed first.
FirstFork(i, f) == IF order[i] = NoValue THEN f ELSE order[i]

Init ==
  /\ constructed = [i \in Instances |-> FALSE]
  /\ rgArg = [i \in Instances |-> NoValue]
  /\ rgSt = [i \in Instances |-> "pending"]
  /\ acct = [i \in Instances |-> Absent]
  /\ cont = [i \in Instances |-> Absent]
  /\ key = [i \in Instances |-> Absent]
  /\ outputs = [i \in Instances |-> NoOutputs]
  /\ registry = {}
  /\ acctCreates = [i \in Instances |-> 0]
  /\ contCreates = [i \in Instances |-> 0]
  /\ keyQueries = [i \in Instances |-> 0]
  /\ deployErr = [i \in Instances |-> NoValue]
  /\ order = [i \in Instances |-> NoValue]

(***************************************************************************)
(* Storage.__init__(name, args, opts)                                      *)
(***************************************************************************)

\* The failure the constructor of StorageAccount raises when it is handed
\* resource_group_name=None (a missing required property).
InvalidConfiguration == "TypeError"

\* The constructor registers the component, reads the reference with
\* args.get and checks nothing itself.  A missing reference is None: the
\* account constructor raises on it and nothing else is declared.  Any other
\* reference is a deferred value, and the account, the container and the
\* key are declared on it.
Construct(i, r) ==
  /\ ~constructed[i]
  /\ constructed' = [constructed EXCEPT ![i] = TRUE]
  /\ rgArg' = [rgArg EXCEPT ![i] = r]
  /\ rgSt' = [rgSt EXCEPT ![i] = IF r = None THEN "missing" ELSE "pending"]
  /\ deployErr' = [deployErr EXCEPT ![i] =
                     IF r = None THEN FirstError(i, InvalidConfiguration) ELSE @]
  /\ acct' = [acct EXCEPT ![i] = IF r = None THEN @ ELSE AccountDeclared]
  /\ cont' = [cont EXCEPT ![i] = IF r = None THEN @ ELSE ContainerDeclared(i)]
  /\ key' = [key EXCEPT ![i] = IF r = None THEN @ ELSE KeyDeclared]
  /\ UNCHANGED <<outputs, registry, acctCreates, contCreates, keyQueries, order>>

\* The upstream resource resolves the deferred reference.
ResolveGroup(i) ==
  /\ constructed[i]
  /\ rgSt[i] = "pending"
  /\ rgSt' = [rgSt EXCEPT ![i] = "resolved"]
  /\ UNCHANGED <<constructed, rgArg, acct, cont, key, outputs, registry,
                 acctCreates, contCreates, keyQueries, deployErr, order>>

\* The upstream resource fails: the reference never resolves.
GroupFails(i) ==
  /\ constructed[i]
  /\ rgSt[i] = "pending"
  /\ rgSt' = [rgSt EXCEPT ![i] = "failed"]
  /\ deployErr' = [deployErr EXCEPT ![i] = FirstError(i, "Unresolvable")]
  /\ UNCHANGED <<constructed, rgArg, acct, cont, key, outputs, registry,
                 acctCreates, contCreates, keyQueries, order>>

(***************************************************************************)
(* account = storage.StorageAccount("sa", resource_group_name=..., ...)    *)
(***************************************************************************)

AccountType == "azure-native:storage:StorageAccount"

\* The engine takes the registration once the reference has resolved.  It
\* refuses a second resource of the same identity; otherwise the create
\* request goes to the provider.
RequestAccount(i) ==
  /\ constructed[i]
  /\ rgSt[i] = "resolved"
  /\ acct[i].st = "declared"
  /\ LET urn == Urn(ComponentType, AccountType, AccountLogicalName(i)) IN
       IF urn \in registry
       THEN /\ acct' = [acct EXCEPT ![i].st = "failed", ![i].err = "DuplicateURN"]
            /\ deployErr' = [deployErr EXCEPT ![i] = FirstError(i, "DuplicateURN")]
            /\ UNCHANGED <<registry, acctCreates>>
       ELSE /\ acct' = [acct EXCEPT ![i].st = "requested"]
            /\ registry' = registry \cup {urn}
            /\ acctCreates' = [acctCreates EXCEPT ![i] = @ + 1]
            /\ UNCHANGED deployErr
  /\ UNCHANGED <<constructed, rgArg, rgSt, cont, key, outputs, contCreates,
                 keyQueries, order>>

\* The provider creates the account and names it.
AccountCreated(i, n) ==
  /\ acct[i].st = "requested"
  /\ rgArg[i] \in ValidGroups
  /\ acct' = [acct EXCEPT ![i].st = "ready", ![i].name = n]
  /\ UNCHANGED <<constructed, rgArg, rgSt, cont, key, outputs, registry,
                 acctCreates, contCreates, keyQueries, deployErr, order>>

\* The provider rejects the account (unknown group, name, region, quota).
AccountRejected(i) ==
  /\ acct[i].st = "requested"
  /\ acct' = [acct EXCEPT ![i].st = "failed", ![i].err = "ProviderRejection"]
  /\ deployErr' = [deployErr EXCEPT ![i] = FirstError(i, "ProviderRejection")]
  /\ UNCHANGED <<constructed, rgArg, rgSt, cont, key, outputs, registry,
                 acctCreates, contCreates, keyQueries, order>>

(***************************************************************************)
(* blob_container = storage.BlobContainer(f"{name}-blobcontainer", ...)    *)
(***************************************************************************)

ContainerType == "azure-native:storage:BlobContainer"

ContainerInputsRequested(i) ==
  acct[i].st \in {"requested", "ready"} /\ rgSt[i] = "resolved"

\* The inputs of the container: account_name=account.name and
\* resource_group_name.
ContainerInputsResolved(i) == AccountReady(i) /\ rgSt[i] = "resolved"

RequestContainer(i) ==
  /\ constructed[i]
  /\ ContainerInputsResolved(i)
  /\ cont[i].st = "declared"
  /\ LET urn == Urn(ComponentType, ContainerType, cont[i].logical) IN
       IF urn \in registry
       THEN /\ cont' = [cont EXCEPT ![i].st = "failed", ![i].err = "DuplicateURN"]
            /\ deployErr' = [deployErr EXCEPT ![i] = FirstError(i, "DuplicateURN")]
            /\ UNCHANGED <<registry, contCreates>>
       ELSE /\ cont' = [cont EXCEPT ![i].st = "requested",
                                    ![i].account = acct[i].name,
                                    ![i].rg = rgArg[i]]
            /\ registry' = registry \cup {urn}
            /\ contCreates' = [contCreates EXCEPT ![i] = @ + 1]
            /\ UNCHANGED deployErr
  /\ UNCHANGED <<constructed, rgArg, rgSt, acct, key, outputs, acctCreates,
                 keyQueries, order>>

\* The provider creates the container and names it.
ContainerCreated(i, n) ==
  /\ cont[i].st = "requested"
  /\ cont' = [cont EXCEPT ![i].st = "ready", ![i].name = n]
  /\ order' = [order EXCEPT ![i] = FirstFork(i, "container")]
  /\ UNCHANGED <<constructed, rgArg, rgSt, acct, key, outputs, registry,
                 acctCreates, contCreates, keyQueries, deployErr>>

\* The provider rejects the container.
ContainerRejected(i) ==
  /\ cont[i].st = "requested"
  /\ cont' = [cont EXCEPT ![i].st = "failed", ![i].err = "ProviderRejection"]
  /\ deployErr' = [deployErr EXCEPT ![i] = FirstError(i, "ProviderRejection")]
  /\ UNCHANGED <<constructed, rgArg, rgSt, acct, key, outputs, registry,
                 acctCreates, contCreates, keyQueries, order>>

(***************************************************************************)
(* primary_key = Output.all(resource_group_name, account.name)             *)
(*                 .apply(list_storage_account_keys).apply(keys[0].value)  *)
(***************************************************************************)

KeyInputsSettled(i) ==
  acct[i].st \in {"ready", "failed"} /\ rgSt[i] = "resolved"

\* pulumi.Output.all(resource_group_name, account.name) has resolved.
KeyInputsResolved(i) == AccountReady(i) /\ rgSt[i] = "resolved"

\* The first apply: the query for the keys of the account.
IssueKeyQuery(i) ==
  /\ constructed[i]
  /\ KeyInputsResolved(i)
  /\ key[i].st = "declared"
  /\ key' = [key EXCEPT ![i].st = "queried", ![i].rg = rgArg[i],
                        ![i].account = acct[i].name]
  /\ keyQueries' = [keyQueries EXCEPT ![i] = @ + 1]
  /\ UNCHANGED <<constructed, rgArg, rgSt, acct, cont, outputs, registry,
                 acctCreates, contCreates, deployErr, order>>

\* The provider answers the query with an ordered sequence of keys.
KeysListed(i, ks) ==
  /\ key[i].st = "queried"
  /\ key' = [key EXCEPT ![i].st = "listed", ![i].keys = ks]
  /\ UNCHANGED <<constructed, rgArg, rgSt, acct, cont, outputs, registry,
                 acctCreates, contCreates, keyQueries, deployErr, order>>

\* The provider refuses the query.
KeyQueryRejected(i) ==
  /\ key[i].st = "queried"
  /\ key' = [key EXCEPT ![i].st = "failed", ![i].err = "ProviderRejection"]
  /\ deployErr' = [deployErr EXCEPT ![i] = FirstError(i, "ProviderRejection")]
  /\ UNCHANGED <<constructed, rgArg, rgSt, acct, cont, outputs, registry,
                 acctCreates, contCreates, keyQueries, order>>

LastKey(accountKeys) ==
  IF Len(accountKeys) = 0
  THEN [ok |-> FALSE, value |-> NoValue, err |-> "IndexError"]
  ELSE [ok |-> TRUE, value |-> accountKeys[Len(accountKeys)].value, err |-> NoValue]

\* lambda accountKeys: accountKeys.keys[0].value; position 0 of an empty
\* list raises IndexError.
PrimaryKey(accountKeys) ==
  IF Len(accountKeys) = 0
  THEN [ok |-> FALSE, value |-> NoValue, err |-> "IndexError"]
  ELSE [ok |-> TRUE, value |-> accountKeys[1].value, err |-> NoValue]

\* The second apply: the value of the primary key.
ExtractKey(i) ==
  /\ key[i].st = "listed"
  /\ LET r == PrimaryKey(key[i].keys) IN
       IF r.ok
       THEN /\ key' = [key EXCEPT ![i].st = "resolved", ![i].value = r.value]
            /\ order' = [order EXCEPT ![i] = FirstFork(i, "key")]
            /\ UNCHANGED deployErr
       ELSE /\ key' = [key EXCEPT ![i].st = "failed", ![i].err = r.err]
            /\ deployErr' = [deployErr EXCEPT ![i] = FirstError(i, r.err)]
            /\ UNCHANGED order
  /\ UNCHANGED <<constructed, rgArg, rgSt, acct, cont, outputs, registry,
                 acctCreates, contCreates, keyQueries>>

(***************************************************************************)
(* self.register_outputs({...})                                            *)
(***************************************************************************)

\* The three attributes of the component, as registered.
BundleOutputs(i) ==
  [registered |-> TRUE,
   blob_container_name |-> cont[i].name,
   storage_account_name |-> acct[i].name,
   storage_account_primary_key |-> key[i].value]

OutputsWithoutKey(i) == AccountReady(i) /\ ContainerReady(i)

OutputsWithoutContainer(i) == AccountReady(i) /\ KeyResolved(i)

\* register_outputs sends the three values in one call, once all of them
\* have resolved.
OutputsResolved(i) == AccountReady(i) /\ ContainerReady(i) /\ KeyResolved(i)

RegisterOutputs(i) ==
  /\ constructed[i]
  /\ OutputsResolved(i)
  /\ outputs[i] = NoOutputs
  /\ outputs' = [outputs EXCEPT ![i] = BundleOutputs(i)]
  /\ UNCHANGED <<constructed, rgArg, rgSt, acct, cont, key, registry,
                 acctCreates, contCreates, keyQueries, deployErr, order>>

OutputsExported(i) == outputs[i].registered

Next ==
  \/ \E i \in Instances, r \in RgRefs : Construct(i, r)
  \/ \E i \in Instances : ResolveGroup(i)
  \/ \E i \in Instances : GroupFails(i)
  \/ \E i \in Instances : RequestAccount(i)
  \/ \E i \in Instances, n \in AccountNames : AccountCreated(i, n)
  \/ \E i \in Instances : AccountRejected(i)
  \/ \E i \in Instances : RequestContainer(i)
  \/ \E i \in Instances : \E n \in ContainerNamesFor(cont[i].logical) : ContainerCreated(i, n)
  \/ \E i \in Instances : ContainerRejected(i)
  \/ \E i \in Instances : IssueKeyQuery(i)
  \/ \E i \in Instances, ks \in KeyLists : KeysListed(i, ks)
  \/ \E i \in Instances : KeyQueryRejected(i)
  \/ \E i \in Instances : ExtractKey(i)
  \/ \E i \in Instances : RegisterOutputs(i)

Spec == Init /\ [][Next]_vars

\* The engine and the provider leave no enabled step of an instance undone.
Fairness ==
  \A i \in Instances :
    /\ WF_vars(ResolveGroup(i) \/ GroupFails(i))
    /\ WF_vars(RequestAccount(i))
    /\ WF_vars(\E n \in AccountNames : AccountCreated(i, n))
    /\ WF_vars(RequestContainer(i))
    /\ WF_vars(\E n \in ContainerNamesFor(cont[i].logical) : ContainerCreated(i, n))
    /\ WF_vars(IssueKeyQuery(i))
    /\ WF_vars(\E ks \in KeyLists : KeysListed(i, ks))
    /\ WF_vars(ExtractKey(i))
    /\ WF_vars(RegisterOutputs(i))

FairSpec == Init /\ [][Next]_vars /\ Fairness

(***************************************************************************)
(* Properties                                                              *)
(***************************************************************************)

\* C1: a step that issues the CreateBlobContainer request or the
\* ListAccountKeys query of an instance starts from a state in which the
\* name of the account of that instance has resolved; the key query also
\* starts with the resource-group reference resolved, and both carry the
\* resolved account name.
C1_DownstreamAfterAccount ==
  [][\A i \in Instances :
       /\ contCreates'[i] > contCreates[i] =>
            /\ AccountReady(i)
            /\ cont'[i].account = acct[i].name
            /\ acct[i].name \in AccountNames
       /\ keyQueries'[i] > keyQueries[i] =>
            /\ AccountReady(i)
            /\ rgSt[i] = "resolved"
            /\ key'[i].account = acct[i].name
            /\ key'[i].rg = rgArg[i]
            /\ acct[i].name \in AccountNames]_vars

C1_Witness ==
  \E i \in Instances :
    /\ contCreates[i] = 1 /\ cont[i].st = "requested"
    /\ keyQueries[i] = 1 /\ key[i].st = "queried"
    /\ AccountReady(i)

\* C2: once the account of an instance has failed, no CreateBlobContainer
\* request and no ListAccountKeys query of that instance has been or is
\* issued.
C2_NoDownstreamOnFailedAccount ==
  \A i \in Instances :
    acct[i].st = "failed" =>
      /\ contCreates[i] = 0 /\ cont[i].st = "declared"
      /\ keyQueries[i] = 0 /\ key[i].st = "declared"

C2_Witness ==
  \E i \in Instances :
    /\ acct[i].st = "failed" /\ acct[i].err = "ProviderRejection"
    /\ rgArg[i] \in ValidGroups /\ acctCreates[i] = 1

\* C3: when ListAccountKeys has answered with the empty sequence, the key
\* step ends in the failure KeyListEmpty (and not in an out-of-range fault).
C3_EmptyKeyListFailsExplicitly ==
  [][\A i \in Instances :
       (key[i].st = "listed" /\ key[i].keys = <<>> /\ key'[i].st # "listed") =>
         (key'[i].st = "failed" /\ key'[i].err = "KeyListEmpty")]_vars

\* C4: a resolved primary key is the value of the first element of the
\* sequence ListAccountKeys answered with, so it is determined by that
\* sequence alone; it is the registered storage_account_primary_key.
C4_FirstKeySelected ==
  \A i \in Instances :
    /\ KeyResolved(i) =>
         /\ Len(key[i].keys) >= 1
         /\ key[i].value = key[i].keys[1].value
    /\ (OutputsExported(i) /\ Len(key[i].keys) >= 1) =>
         outputs[i].storage_account_primary_key = key[i].keys[1].value

C4_Witness ==
  \E i \in Instances :
    /\ KeyResolved(i)
    /\ Len(key[i].keys) = 2
    /\ key[i].keys[1].value = "KEY2" /\ key[i].keys[2].value = "KEY1"
    /\ key[i].value = "KEY2"

\* A provider call of the instance has failed, or has answered with no key.
ProviderCallFailed(i) ==
  \/ acct[i].err = "ProviderRejection"
  \/ cont[i].err = "ProviderRejection"
  \/ key[i].err = "ProviderRejection"
  \/ (key[i].st \in {"listed", "failed"} /\ key[i].keys = <<>> /\ key[i].err # "ProviderRejection")

\* C5: every bundle constructed with a valid resource-group reference that
\* resolves eventually registers its three outputs, all resolved, unless a
\* provider call of the bundle fails.
C5_ThreeOutputsEventuallyResolve ==
  \A i \in Instances :
    (constructed[i] /\ rgArg[i] \in ValidGroups) ~>
      \/ /\ OutputsExported(i)
         /\ DOMAIN outputs[i] = {"registered", "blob_container_name",
                                 "storage_account_name", "storage_account_primary_key"}
         /\ outputs[i].blob_container_name # NoValue
         /\ outputs[i].storage_account_name # NoValue
         /\ outputs[i].storage_account_primary_key # NoValue
      \/ ProviderCallFailed(i)
      \/ rgSt[i] = "failed"

\* C6: the container of instance N is declared and requested under the name
\* N followed by "-blobcontainer"; the registered outputs are the name of
\* the created container, the name of the created account and the value of
\* the first key; the end-to-end scenario of bundle1 gives the three values
\* "bundle1-blobcontainer", "sa123", "KEY1".
C6_NamesAndOutputs ==
  \A i \in Instances :
    /\ cont[i].st # "absent" => cont[i].logical = i \o "-blobcontainer"
    /\ contCreates[i] > 0 =>
         <<ComponentType, ContainerType, i \o "-blobcontainer">> \in registry
    /\ OutputsExported(i) =>
         /\ outputs[i].blob_container_name = cont[i].name
         /\ outputs[i].blob_container_name \in
              {i \o "-blobcontainer", i \o "-blobcontainer7f3a"}
         /\ outputs[i].storage_account_name = acct[i].name
         /\ outputs[i].storage_account_primary_key = key[i].value
    /\ ( /\ OutputsExported(i) /\ i = "bundle1" /\ rgArg[i] = "rg-test"
         /\ acct[i].name = "sa123" /\ cont[i].name = cont[i].logical
         /\ key[i].keys = <<KeyEntry(1, "KEY1")>> ) =>
         outputs[i] = [registered |-> TRUE,
                       blob_container_name |-> "bundle1-blobcontainer",
                       storage_account_name |-> "sa123",
                       storage_account_primary_key |-> "KEY1"]

C6_Witness ==
  /\ OutputsExported("bundle1")
  /\ rgArg["bundle1"] = "rg-test"
  /\ key["bundle1"].keys = <<KeyEntry(1, "KEY1")>>
  /\ order["bundle1"] = "container"
  /\ outputs["bundle1"] = [registered |-> TRUE,
                           blob_container_name |-> "bundle1-blobcontainer",
                           storage_account_name |-> "sa123",
                           storage_account_primary_key |-> "KEY1"]

\* A step of the instance has failed.
AnyFailed(i) ==
  \/ rgSt[i] \in {"missing", "failed"}
  \/ acct[i].st = "failed"
  \/ cont[i].st = "failed"
  \/ key[i].st = "failed"

\* C7: an instance of which a step has failed has registered no outputs, and
\* the error of the deployment is the error of the failed step that is first
\* in dependency order (the reference, then the account, then the container
\* or the key, whichever failed first).
C7_NoPartialOutputs ==
  \A i \in Instances :
    /\ AnyFailed(i) => ~OutputsExported(i)
    /\ AnyFailed(i) <=> deployErr[i] # NoValue
    /\ rgSt[i] = "missing" => deployErr[i] = InvalidConfiguration
    /\ rgSt[i] = "failed" => deployErr[i] = "Unresolvable"
    /\ acct[i].st = "failed" => deployErr[i] = acct[i].err
    /\ (AnyFailed(i) /\ AccountReady(i)) =>
         deployErr[i] \in ({cont[i].err, key[i].err} \ {NoValue})

C7_Witness ==
  \E i \in Instances :
    /\ AccountReady(i) /\ ContainerReady(i)
    /\ key[i].st = "failed"
    /\ ~OutputsExported(i)
    /\ deployErr[i] = key[i].err

\* C8: an instance constructed without a reference to an existing resource
\* group has failed with InvalidConfiguration and has issued no request.
C8_InvalidConfigurationAtConstruction ==
  \A i \in Instances :
    (constructed[i] /\ rgArg[i] \notin ValidGroups) =>
      /\ deployErr[i] = InvalidConfiguration
      /\ acctCreates[i] = 0 /\ contCreates[i] = 0 /\ keyQueries[i] = 0

\* C9: outputs are registered only when the container is ready and the key
\* is resolved, one of the two forks having completed first, and the
\* registered values are those the provider answered with, whichever fork
\* that was.
C9_ForksJoinBeforeExport ==
  \A i \in Instances :
    OutputsExported(i) =>
      /\ ContainerReady(i) /\ KeyResolved(i)
      /\ order[i] \in {"container", "key"}
      /\ outputs[i] = [registered |-> TRUE,
                       blob_container_name |-> cont[i].name,
                       storage_account_name |-> acct[i].name,
                       storage_account_primary_key |-> key[i].keys[1].value]
      /\ cont[i].name \in ContainerNamesFor(cont[i].logical)
      /\ acct[i].name \in AccountNames

C9_Witness ==
  \E i \in Instances :
    /\ OutputsExported(i)
    /\ order[i] = "key"
    /\ ContainerReady(i) /\ KeyResolved(i)

\* C10: every instance whose account registration has been taken up has
\* issued exactly one CreateStorageAccount request, and every instance whose
\* container registration has been taken up exactly one CreateBlobContainer
\* request, also with several instances in the deployment.
C10_EachEntityCreatedOnce ==
  \A i \in Instances :
    /\ acctCreates[i] <= 1 /\ contCreates[i] <= 1
    /\ acct[i].st \notin {"absent", "declared"} => acctCreates[i] = 1
    /\ cont[i].st \notin {"absent", "declared"} => contCreates[i] = 1
====
